---- MODULE Spec2Model ----
(***************************************************************************)
(* Model of locust/locustfile.py: the seven HttpUser classes, their        *)
(* weights and task tables, the task bodies that classify a response, and  *)
(* the per-user loop that runs them.                                       *)
(*                                                                         *)
(* A virtual user is one greenlet: it picks a task from its class's task   *)
(* list, the task body issues one GET and blocks until the response is     *)
(* there, the body of the `with` statement marks the response, and leaving *)
(* the `with` statement reports the request.  The response (status code    *)
(* and JSON body) is the input; it is drawn from small sets.               *)
(***************************************************************************)
EXTENDS Integers, Sequences, FiniteSets, TLC

\* Number of virtual users running concurrently.
MaxUsers == 2

Users == 1..MaxUsers

----------------------------------------------------------------------------
(* Thresholds of the task bodies *)

SlowLimit == 5000
FastLimit == 100
HealthLimit == 1000

----------------------------------------------------------------------------
(* The user classes *)

UserClasses ==
    << "SlowQueryUser", "FastQueryUser", "MixedUser", "HealthCheckUser",
       "ScenarioSlowOnly", "ScenarioFastOnly", "ScenarioMixed" >>

ClassNames == { UserClasses[k] : k \in 1..Len(UserClasses) }

\* every class left at HttpUser's weight
weightAllOne(c) == 1

\* `weight` class attribute; a class that sets none keeps HttpUser's 1.
weight(c) ==
    CASE c = "SlowQueryUser"   -> 1
      [] c = "FastQueryUser"   -> 1
      [] c = "MixedUser"       -> 3
      [] c = "HealthCheckUser" -> 1
      [] OTHER                 -> 1

RECURSIVE SumWeights(_)
SumWeights(k) == IF k = 0 THEN 0 ELSE SumWeights(k - 1) + weight(UserClasses[k])

TotalWeight == SumWeights(Len(UserClasses))

\* The cumulative weight table: the class that owns each slot.
SlotTable ==
    [ d \in 1..TotalWeight |->
        UserClasses[CHOOSE k \in 1..Len(UserClasses) :
                        SumWeights(k - 1) < d /\ d <= SumWeights(k)] ]

ClassOfSlot(d) == SlotTable[d]

----------------------------------------------------------------------------
(* Task tables: @task and @task(n) *)

TaskTableSwapped(c) ==
    CASE c = "SlowQueryUser"    -> << [task |-> "slow_query", w |-> 1] >>
      [] c = "FastQueryUser"    -> << [task |-> "fast_query", w |-> 1] >>
      [] c = "MixedUser"        -> << [task |-> "slow_query", w |-> 8],
                                      [task |-> "fast_query", w |-> 2] >>
      [] c = "HealthCheckUser"  -> << [task |-> "health_check", w |-> 1] >>
      [] c = "ScenarioSlowOnly" -> << [task |-> "slow_query", w |-> 1] >>
      [] c = "ScenarioFastOnly" -> << [task |-> "fast_query", w |-> 1] >>
      [] c = "ScenarioMixed"    -> << [task |-> "slow_query", w |-> 8],
                                      [task |-> "fast_query", w |-> 2] >>
      [] OTHER                  -> << >>

TaskTable(c) ==
    CASE c = "SlowQueryUser"    -> << [task |-> "slow_query", w |-> 1] >>
      [] c = "FastQueryUser"    -> << [task |-> "fast_query", w |-> 1] >>
      [] c = "MixedUser"        -> << [task |-> "slow_query", w |-> 2],
                                      [task |-> "fast_query", w |-> 8] >>
      [] c = "HealthCheckUser"  -> << [task |-> "health_check", w |-> 1] >>
      [] c = "ScenarioSlowOnly" -> << [task |-> "slow_query", w |-> 1] >>
      [] c = "ScenarioFastOnly" -> << [task |-> "fast_query", w |-> 1] >>
      [] c = "ScenarioMixed"    -> << [task |-> "slow_query", w |-> 2],
                                      [task |-> "fast_query", w |-> 8] >>
      [] OTHER                  -> << >>

Repeat(x, n) == [k \in 1..n |-> x]

RECURSIVE Expand(_)
Expand(table) ==
    IF table = << >> THEN << >>
    ELSE Repeat(Head(table).task, Head(table).w) \o Expand(Tail(table))

\* The task list of every class: every task repeated as many times as its
\* weight.  The loop picks one entry of it uniformly for every iteration.
TaskLists == [ c \in ClassNames \cup {"none"} |-> Expand(TaskTable(c)) ]

Tasks(c) == TaskLists[c]

\* The name= argument of the GET; without one the path is the name.
RequestName(c, t) ==
    CASE c = "SlowQueryUser"    -> "/slow"
      [] c = "FastQueryUser"    -> "/fast"
      [] c = "HealthCheckUser"  -> "/health"
      [] c = "MixedUser"        -> IF t = "slow_query" THEN "/slow (mixed)"
                                                       ELSE "/fast (mixed)"
      [] c = "ScenarioSlowOnly" -> "/api/distribution-groups/slow"
      [] c = "ScenarioFastOnly" -> "/api/distribution-groups/fast"
      [] OTHER                  -> IF t = "slow_query" THEN "/slow" ELSE "/fast"

----------------------------------------------------------------------------
(* Responses *)

\* Status codes: 0 is a request that got no response.
Statuses == {0, 200, 204, 404}

NoData == [k \in {} |-> 0]

\* A body that is not JSON: response.json() raises.
Malformed == [ok |-> FALSE, data |-> NoData]

JsonObject(d) == [ok |-> TRUE, data |-> d]

QueryTimes == {50, 100, 101, 150, 5000, 5001, 6000}
ResponseTimes == {500, 1000, 1001, 1500}

Bodies ==
    {Malformed, JsonObject(NoData)}
    \cup { JsonObject([k \in {"queryTimeMs"} |-> n]) : n \in QueryTimes }
    \cup { JsonObject([k \in {"responseTimeMs"} |-> n]) : n \in ResponseTimes }

\* The body of a response whose status is not 200 is never read.
Responses ==
    { [status |-> s, body |-> Malformed] : s \in Statuses \ {200} }
    \cup { [status |-> 200, body |-> b] : b \in Bodies }

\* dict.get(key, default)
DictGet(d, key, default) == IF key \in DOMAIN d THEN d[key] ELSE default

----------------------------------------------------------------------------
(* f-string formatting of an integer: its decimal digits *)

DigitChars == << "0", "1", "2", "3", "4", "5", "6", "7", "8", "9" >>

RECURSIVE Digits(_)
Digits(n) ==
    IF n < 10 THEN << DigitChars[n + 1] >>
    ELSE Digits(n \div 10) \o << DigitChars[(n % 10) + 1] >>

Str(n) == IF n < 0 THEN << "-" >> \o Digits(0 - n) ELSE Digits(n)

----------------------------------------------------------------------------
(* Task bodies.  The result of a body is the sequence of response.failure  *)
(* calls it made, and whether an exception left it.                        *)

NoMark == [raised |-> FALSE, marks |-> << >>]
Raise == [raised |-> TRUE, marks |-> << >>]
Fail(msg) == [raised |-> FALSE, marks |-> << msg >>]

\* slow_query with the comparison turned round
SlowBodyAtLeast(resp) ==
    IF resp.status = 200
    THEN IF ~resp.body.ok THEN Raise
         ELSE IF DictGet(resp.body.data, "queryTimeMs", 0) >= SlowLimit
              THEN Fail(<< "Query too slow: " >>
                        \o Str(resp.body.data["queryTimeMs"]) \o << "ms" >>)
              ELSE NoMark
    ELSE IF resp.status = 0
         THEN Fail(<< "Connection timeout - pool exhausted" >>)
         ELSE Fail(<< "HTTP " >> \o Str(resp.status))

\* slow_query without its status-0 branch
SlowBodyNoZero(resp) ==
    IF resp.status = 200
    THEN IF ~resp.body.ok THEN Raise
         ELSE IF DictGet(resp.body.data, "queryTimeMs", 0) > SlowLimit
              THEN Fail(<< "Query too slow: " >>
                        \o Str(resp.body.data["queryTimeMs"]) \o << "ms" >>)
              ELSE NoMark
    ELSE Fail(<< "HTTP " >> \o Str(resp.status))

SlowQueryUser_slow_query(resp) ==
    IF resp.status = 200
    THEN IF ~resp.body.ok THEN Raise
         ELSE IF DictGet(resp.body.data, "queryTimeMs", 0) > SlowLimit
              THEN Fail(<< "Query too slow: " >>
                        \o Str(resp.body.data["queryTimeMs"]) \o << "ms" >>)
              ELSE NoMark
    ELSE IF resp.status = 0
         THEN Fail(<< "Connection timeout - pool exhausted" >>)
         ELSE Fail(<< "HTTP " >> \o Str(resp.status))

\* fast_query with the comparison turned round
FastBodyAtLeast(resp) ==
    IF resp.status = 200
    THEN IF ~resp.body.ok THEN Raise
         ELSE IF DictGet(resp.body.data, "queryTimeMs", 0) >= FastLimit
              THEN Fail(<< "Unexpectedly slow: " >>
                        \o Str(resp.body.data["queryTimeMs"]) \o << "ms" >>)
              ELSE NoMark
    ELSE Fail(<< "HTTP " >> \o Str(resp.status))

FastQueryUser_fast_query(resp) ==
    IF resp.status = 200
    THEN IF ~resp.body.ok THEN Raise
         ELSE IF DictGet(resp.body.data, "queryTimeMs", 0) > FastLimit
              THEN Fail(<< "Unexpectedly slow: " >>
                        \o Str(resp.body.data["queryTimeMs"]) \o << "ms" >>)
              ELSE NoMark
    ELSE Fail(<< "HTTP " >> \o Str(resp.status))

\* health_check with the comparison turned round
HealthBodyAtLeast(resp) ==
    IF resp.status = 200
    THEN IF ~resp.body.ok THEN Raise
         ELSE IF DictGet(resp.body.data, "responseTimeMs", 0) >= HealthLimit
              THEN Fail(<< "Health check slow: " >>
                        \o Str(resp.body.data["responseTimeMs"])
                        \o << "ms", " - system degraded" >>)
              ELSE NoMark
    ELSE Fail(<< "Health check failed - system may be down" >>)

HealthCheckUser_health_check(resp) ==
    IF resp.status = 200
    THEN IF ~resp.body.ok THEN Raise
         ELSE IF DictGet(resp.body.data, "responseTimeMs", 0) > HealthLimit
              THEN Fail(<< "Health check slow: " >>
                        \o Str(resp.body.data["responseTimeMs"])
                        \o << "ms", " - system degraded" >>)
              ELSE NoMark
    ELSE Fail(<< "Health check failed - system may be down" >>)

\* a plain GET that classified like SlowQueryUser / FastQueryUser
PlainGetClassifying(t, resp) ==
    IF t = "slow_query" THEN SlowQueryUser_slow_query(resp)
                        ELSE FastQueryUser_fast_query(resp)

\* self.client.get(...) without catch_response: the body marks nothing and
\* never reads the response.
PlainGet(t, resp) == NoMark

TaskBody(c, t, resp) ==
    CASE c = "SlowQueryUser"   -> SlowQueryUser_slow_query(resp)
      [] c = "FastQueryUser"   -> FastQueryUser_fast_query(resp)
      [] c = "HealthCheckUser" -> HealthCheckUser_health_check(resp)
      [] OTHER                 -> PlainGet(t, resp)

\* The verdict of a request nobody marked: the client raises for a request
\* without response (status 0) and for a 4xx or 5xx status.
DefaultOutcome(status) ==
    IF status = 0 \/ (400 <= status /\ status < 600) THEN "failure" ELSE "success"

\* Leaving the `with` statement (or the plain GET returning): a marked
\* response is reported with the last mark; an exception of the body
\* leaves unreported; otherwise the status decides.
RequestEvent(c, t, resp) ==
    LET r == TaskBody(c, t, resp) IN
    [ kind    |-> IF r.marks = << >> /\ r.raised THEN "error" ELSE "report",
      cls     |-> c,
      task    |-> t,
      name    |-> RequestName(c, t),
      resp    |-> resp,
      outcome |-> IF r.marks # << >> THEN "failure"
                  ELSE IF r.raised THEN "none"
                  ELSE DefaultOutcome(resp.status),
      message |-> IF r.marks # << >> THEN r.marks[Len(r.marks)] ELSE << >>,
      marks   |-> Len(r.marks) ]

----------------------------------------------------------------------------
(* State *)

VARIABLES
    cls,        \* cls[u]: the class user u was spawned as, "none" before
    pc,         \* pc[u]: "idle" (not spawned),
                \*   "ready" (no task run yet, or the last task's request
                \*            was reported),
                \*   "running" (request issued, no response yet),
                \*   "raised" (the last task left with an exception)
    task,       \* task[u]: the task u is running, "none" outside one
    lastEvent   \* what the last finished task execution handed to the engine

vars == << cls, pc, task, lastEvent >>

NoEvent ==
    [ kind |-> "none", cls |-> "none", task |-> "none", name |-> "none",
      resp |-> [status |-> 0, body |-> Malformed], outcome |-> "none",
      message |-> << >>, marks |-> 0 ]

Init ==
    /\ cls = [u \in Users |-> "none"]
    /\ pc = [u \in Users |-> "idle"]
    /\ task = [u \in Users |-> "none"]
    /\ lastEvent = NoEvent

\* The user's loop selects a task when the previous one has returned; an
\* exception of a task is logged by the loop, which goes on.
CanSchedule(u) == pc[u] \in {"ready", "raised"}

\* random.choice over the task list
CanSelect(u, i) == i \in 1..Len(Tasks(cls[u]))

\* The engine spawns user u as the class of slot d.
Spawn(u, d) ==
    /\ pc[u] = "idle"
    /\ d \in 1..TotalWeight
    /\ cls' = [cls EXCEPT ![u] = ClassOfSlot(d)]
    /\ pc' = [pc EXCEPT ![u] = "ready"]
    /\ UNCHANGED << task, lastEvent >>

\* User u selects entry i of its task list and issues the task's request.
RunTask(u, i) ==
    /\ CanSchedule(u)
    /\ CanSelect(u, i)
    /\ task' = [task EXCEPT ![u] = Tasks(cls[u])[i]]
    /\ pc' = [pc EXCEPT ![u] = "running"]
    /\ UNCHANGED << cls, lastEvent >>

\* The response arrives; the rest of the task body runs to its end.
Respond(u, resp) ==
    /\ pc[u] = "running"
    /\ resp \in Responses
    /\ lastEvent' = RequestEvent(cls[u], task[u], resp)
    /\ pc' = [pc EXCEPT ![u] = IF lastEvent'.kind = "error" THEN "raised"
                                                            ELSE "ready"]
    /\ task' = [task EXCEPT ![u] = "none"]
    /\ UNCHANGED cls

Next ==
    \/ \E u \in Users, d \in 1..TotalWeight : Spawn(u, d)
    \/ \E u \in Users : \E i \in 1..Len(Tasks(cls[u])) : RunTask(u, i)
    \/ \E u \in Users, resp \in Responses : Respond(u, resp)

Spec == Init /\ [][Next]_vars

----------------------------------------------------------------------------
(* Properties *)

\* sub occurs in msg as a run of consecutive elements
Contains(msg, sub) ==
    \E k \in 0..(Len(msg) - Len(sub)) :
        \A j \in 1..Len(sub) : msg[k + j] = sub[j]

PoolExhausted == << "Connection timeout - pool exhausted" >>
HealthDown == << "Health check failed - system may be down" >>

Classifying == {"SlowQueryUser", "FastQueryUser", "HealthCheckUser"}
PlainClasses ==
    {"MixedUser", "ScenarioSlowOnly", "ScenarioFastOnly", "ScenarioMixed"}

\* The last finished execution was task body c on a response whose body,
\* when the body was read, was a JSON object.
Classified(c) ==
    /\ lastEvent.kind # "none"
    /\ lastEvent.cls = c
    /\ (lastEvent.resp.status = 200 => lastEvent.resp.body.ok)

EvStatus == lastEvent.resp.status
EvQueryTime == DictGet(lastEvent.resp.body.data, "queryTimeMs", 0)
EvResponseTime == DictGet(lastEvent.resp.body.data, "responseTimeMs", 0)

\* C1: SlowQueryUser.slow_query, for every status and queryTimeMs: success
\* iff status = 200 and queryTimeMs <= 5000; a 200 over 5000 fails with a
\* message holding the measured time (6000 gives the digits 6000); status 0
\* fails with the pool-exhaustion message; any other status fails with a
\* message holding the status code.
C1_SlowVerdict ==
    Classified("SlowQueryUser") =>
        /\ lastEvent.kind = "report"
        /\ lastEvent.outcome \in {"success", "failure"}
        /\ lastEvent.outcome = "success" <=> (EvStatus = 200 /\ EvQueryTime <= 5000)
        /\ (EvStatus = 200 /\ EvQueryTime > 5000) =>
               Contains(lastEvent.message, Str(EvQueryTime))
        /\ (EvStatus = 200 /\ EvQueryTime = 6000) =>
               Contains(lastEvent.message, << "6", "0", "0", "0" >>)
        /\ EvStatus = 0 => lastEvent.message = PoolExhausted
        /\ EvStatus \notin {0, 200} =>
               /\ Contains(lastEvent.message, Str(EvStatus))
               /\ ~Contains(lastEvent.message, PoolExhausted)

C1_Witness ==
    /\ Classified("SlowQueryUser")
    /\ EvStatus = 200
    /\ EvQueryTime = 6000
    /\ lastEvent.outcome = "failure"

\* C2 as stated: a status-0 response fails with a message indicating
\* connection/pool exhaustion on the slow, fast and health task alike.
C2_Original ==
    (lastEvent.kind # "none" /\ lastEvent.cls \in Classifying /\ EvStatus = 0) =>
        /\ lastEvent.outcome = "failure"
        /\ Contains(lastEvent.message, PoolExhausted)

\* C2 amended: a status-0 response fails on the slow, fast and health task
\* alike, but only the slow task's message names pool exhaustion; the fast
\* task reports "HTTP 0" and the health task "Health check failed - system
\* may be down".
C2_StatusZero ==
    (lastEvent.kind # "none" /\ lastEvent.cls \in Classifying /\ EvStatus = 0) =>
        /\ lastEvent.kind = "report"
        /\ lastEvent.outcome = "failure"
        /\ lastEvent.cls = "SlowQueryUser" => lastEvent.message = PoolExhausted
        /\ lastEvent.cls = "FastQueryUser" => lastEvent.message = << "HTTP ", "0" >>
        /\ lastEvent.cls = "HealthCheckUser" => lastEvent.message = HealthDown

C2_Witness ==
    /\ lastEvent.kind = "report"
    /\ lastEvent.cls = "FastQueryUser"
    /\ EvStatus = 0
    /\ lastEvent.outcome = "failure"

\* The last execution got a 200 whose queryTimeMs is over the path's limit.
OverLimit ==
    /\ lastEvent.kind # "none"
    /\ EvStatus = 200
    /\ lastEvent.resp.body.ok
    /\ \/ lastEvent.task = "slow_query" /\ EvQueryTime > 5000
       \/ lastEvent.task = "fast_query" /\ EvQueryTime > 100

\* C3 as stated: whichever profile issued the request, a 200 with queryTimeMs
\* over 5000 on the slow path (over 100 on the fast path) is reported as
\* failure.
C3_Original == OverLimit => (lastEvent.kind = "report" /\ lastEvent.outcome = "failure")

\* C3 amended: only the task bodies of SlowQueryUser and FastQueryUser report
\* an over-limit 200 as failure.  The tasks of MixedUser, ScenarioSlowOnly,
\* ScenarioFastOnly and ScenarioMixed mark nothing: their request is
\* reported as failure iff the status is 0 or 4xx/5xx, so an over-limit 200
\* is reported as success.
C3_PlainTasksDoNotClassify ==
    /\ OverLimit =>
           /\ lastEvent.kind = "report"
           /\ lastEvent.outcome = "failure"
                  <=> lastEvent.cls \in {"SlowQueryUser", "FastQueryUser"}
    /\ (lastEvent.kind # "none" /\ lastEvent.cls \in PlainClasses) =>
           /\ lastEvent.kind = "report"
           /\ lastEvent.marks = 0
           /\ lastEvent.outcome = "failure"
                  <=> (EvStatus = 0 \/ (400 <= EvStatus /\ EvStatus <= 599))

C3_Witness ==
    /\ OverLimit
    /\ lastEvent.cls = "MixedUser"
    /\ lastEvent.name = "/slow (mixed)"
    /\ EvQueryTime = 6000
    /\ lastEvent.outcome = "success"

\* C4: FastQueryUser.fast_query, for every status and queryTimeMs: success
\* iff status = 200 and queryTimeMs <= 100 (50 and 100 succeed, 150 fails);
\* a failed 200 reports the measured time, any other status the status code.
C4_FastVerdict ==
    Classified("FastQueryUser") =>
        /\ lastEvent.kind = "report"
        /\ lastEvent.outcome \in {"success", "failure"}
        /\ lastEvent.outcome = "success" <=> (EvStatus = 200 /\ EvQueryTime <= 100)
        /\ (EvStatus = 200 /\ EvQueryTime \in {50, 100}) => lastEvent.outcome = "success"
        /\ (EvStatus = 200 /\ EvQueryTime = 150) =>
               /\ lastEvent.outcome = "failure"
               /\ Contains(lastEvent.message, << "1", "5", "0" >>)
        /\ (EvStatus = 200 /\ lastEvent.outcome = "failure") =>
               Contains(lastEvent.message, Str(EvQueryTime) \o << "ms" >>)
        /\ EvStatus # 200 => lastEvent.message = << "HTTP " >> \o Str(EvStatus)

C4_Witness ==
    /\ Classified("FastQueryUser")
    /\ EvStatus = 200
    /\ EvQueryTime = 150
    /\ lastEvent.outcome = "failure"

\* C5: HealthCheckUser.health_check, for every status and responseTimeMs:
\* success iff status = 200 and responseTimeMs <= 1000 (500 succeeds, 1500
\* fails); a 200 over the limit fails with a "degraded" message, any other
\* status with the message that the system may be down.
C5_HealthVerdict ==
    Classified("HealthCheckUser") =>
        /\ lastEvent.kind = "report"
        /\ lastEvent.outcome \in {"success", "failure"}
        /\ lastEvent.outcome = "success" <=> (EvStatus = 200 /\ EvResponseTime <= 1000)
        /\ (EvStatus = 200 /\ EvResponseTime = 500) => lastEvent.outcome = "success"
        /\ (EvStatus = 200 /\ EvResponseTime = 1500) => lastEvent.outcome = "failure"
        /\ (EvStatus = 200 /\ lastEvent.outcome = "failure") =>
               /\ Contains(lastEvent.message, << " - system degraded" >>)
               /\ Contains(lastEvent.message, Str(EvResponseTime))
        /\ EvStatus # 200 => lastEvent.message = HealthDown

C5_Witness ==
    /\ Classified("HealthCheckUser")
    /\ EvStatus = 200
    /\ EvResponseTime = 1500
    /\ lastEvent.outcome = "failure"

\* The field the task body of class c reads.
FieldOf(c) == IF c = "HealthCheckUser" THEN "responseTimeMs" ELSE "queryTimeMs"

\* C6 as stated: on a 200 whose body lacks the task's numeric field or is
\* malformed, the field counts as 0, the verdict is success, and no error
\* leaves the task body.
C6_MissingOrMalformedIsSuccess ==
    /\ (/\ lastEvent.kind # "none"
        /\ lastEvent.cls \in Classifying
        /\ EvStatus = 200
        /\ \/ ~lastEvent.resp.body.ok
           \/ FieldOf(lastEvent.cls) \notin DOMAIN lastEvent.resp.body.data)
       => (lastEvent.kind = "report" /\ lastEvent.outcome = "success")
    /\ \A u \in Users : pc[u] # "raised"

\* Draws of the spawner open to a user that is not spawned yet.
SpawnDraws(u) == { d \in 1..12 : ENABLED Spawn(u, d) }

\* C7 as stated: the registry holds four profiles, with weights {1,1,3,1},
\* and the mixed profile's share weight / sum of all weights is 3/6.
C7_Original ==
    /\ \A u \in Users :
           cls[u] \in {"none", "SlowQueryUser", "FastQueryUser", "MixedUser",
                       "HealthCheckUser"}
    /\ \A u \in Users :
           pc[u] = "idle" =>
               LET all == SpawnDraws(u)
                   mixed == { d \in all : ClassOfSlot(d) = "MixedUser" }
               IN  /\ Cardinality(all) = 6
                   /\ 2 * Cardinality(mixed) = Cardinality(all)

\* C7 amended: the registry holds seven profiles; the three Scenario classes
\* set no weight and keep 1, so the weights are {1,1,3,1,1,1,1}.  The mixed
\* profile's weight is three times that of every other profile and its share
\* weight / sum of all weights is 3/9; it is 3/6 only among the four classes
\* that set a weight.
C7_MixedShare ==
    /\ Len(UserClasses) = 7
    /\ \A c \in ClassNames \ {"MixedUser"} : weight("MixedUser") = 3 * weight(c)
    /\ \A u \in Users :
           pc[u] = "idle" =>
               LET all == SpawnDraws(u)
                   mixed == { d \in all : ClassOfSlot(d) = "MixedUser" }
                   weighted == { d \in all :
                                   ClassOfSlot(d) \in Classifying \cup {"MixedUser"} }
               IN  /\ Cardinality(all) = 9
                   /\ 3 * Cardinality(mixed) = Cardinality(all)
                   /\ 2 * Cardinality(mixed) = Cardinality(weighted)

C7_Witness ==
    \E u, v \in Users :
        /\ cls[u] = "MixedUser"
        /\ cls[v] \in {"ScenarioSlowOnly", "ScenarioFastOnly", "ScenarioMixed"}

\* Entries of the task list open to user u for its next iteration.
TaskDraws(u) == { i \in 1..12 : ENABLED RunTask(u, i) }

\* C8: whenever a user of the realistic-mix profiles is about to select a
\* task, whatever it selected before, the draw has 10 outcomes, of which 2
\* select the slow task and 8 the fast task (1:4), and each selects exactly
\* one task.
C8_TaskWeights ==
    \A u \in Users :
        (cls[u] \in {"MixedUser", "ScenarioMixed"} /\ pc[u] \in {"ready", "raised"}) =>
            LET all == TaskDraws(u)
                slow == { i \in all : Tasks(cls[u])[i] = "slow_query" }
                fast == { i \in all : Tasks(cls[u])[i] = "fast_query" }
            IN  /\ Cardinality(all) = 10
                /\ Cardinality(slow) = 2
                /\ Cardinality(fast) = 8
                /\ 4 * Cardinality(slow) = Cardinality(fast)

\* The user that ran the last task is a MixedUser that selected the slow
\* task, and it is about to select again.
C8_Witness ==
    /\ lastEvent.cls = "MixedUser"
    /\ lastEvent.task = "slow_query"
    /\ \E u \in Users : cls[u] = "MixedUser"
    /\ \A u \in Users :
           cls[u] = "MixedUser" =>
               (pc[u] = "ready" /\ Cardinality(TaskDraws(u)) = 10)

\* C9 as stated: a user begins a task (selects it and issues its request)
\* only when it has run none yet or its previous task's request has been
\* classified and reported.
C9_NextTaskAfterReport ==
    [][\A u \in Users :
           (pc[u] # "running" /\ pc'[u] = "running") => pc[u] = "ready"]_vars

\* C10 as stated: every execution of a classifying task body yields exactly
\* one verdict for its one request: at most one failure mark, failure iff
\* marked, never both.
C10_ExactlyOneVerdict ==
    (lastEvent.kind # "none" /\ lastEvent.cls \in Classifying) =>
        /\ lastEvent.kind = "report"
        /\ lastEvent.marks <= 1
        /\ lastEvent.outcome \in {"success", "failure"}
        /\ lastEvent.outcome = "failure" <=> lastEvent.marks = 1

====
